---- MODULE Spec2Model ----
(***************************************************************************)
(* A model of src/backbones/RepVGG.py (SEBlock, conv_bn, RepVGGBlock,      *)
(* RepVGG) and of the backbone dictionary of                               *)
(* src/config/repvggb2g4_cifar10_bs16.py.                                  *)
(*                                                                         *)
(* Tensors are modelled by their shapes <<N, C, H, W>>; layers by the      *)
(* constructor arguments that decide shapes and failures.  A width         *)
(* multiplier is an exact fraction <<num, den>>.  The products the code    *)
(* forms (64 * w, 128 * w, 256 * w, 512 * w) are multiplications of a      *)
(* double by a power of two, which are exact, so int() of the product is   *)
(* the truncation of the exact fraction.                                   *)
(***************************************************************************)
EXTENDS Integers, Sequences, FiniteSets, TLC

VARIABLES pc, err, kwargs, args, self, frame, fwd, bargs, block, bio, se_mod, se_io

netvars == <<kwargs, args, self, frame, fwd>>
blockvars == <<bargs, block, bio>>
sevars == <<se_mod, se_io>>
vars == <<pc, err, kwargs, args, self, frame, fwd, bargs, block, bio, se_mod, se_io>>

(* Bounds of the enumerated inputs. *)
MaxBlocks == 2
MaxHW == 3
MaxBatch == 2

(* Python's None and a present value. *)
None == <<>>
Some(v) == <<v>>
IsNone(o) == o = <<>>
Val(o) == o[1]

Min(a, b) == IF a <= b THEN a ELSE b

(* int(base * w) for the fraction w = <<num, den>>: truncation toward zero. *)
(* The product rounded up instead. *)
IntMulMut(base, w) == (base * w[1] + w[2] - 1) \div w[2]
IntMul(base, w) ==
    IF base * w[1] >= 0 THEN (base * w[1]) \div w[2]
    ELSE -((-(base * w[1])) \div w[2])

(* dict.get(key, default) *)
DictGet(d, key, default) == IF key \in DOMAIN d THEN d[key] ELSE default

EmptyDict == [k \in {} |-> 1]

(***************************************************************************)
(* Layers.                                                                 *)
(***************************************************************************)

(* nn.Conv2d's constructor accepts a grouping factor only if it is positive *)
(* and divides both channel counts (ValueError otherwise).  A channel      *)
(* count of 0 is accepted: the layer then has no weights.                  *)
Conv2dAccepts(in_channels, out_channels, groups) ==
    /\ groups > 0
    /\ in_channels % groups = 0
    /\ out_channels % groups = 0

Conv2d(in_channels, out_channels, kernel_size, stride, padding, groups) ==
    [in_channels |-> in_channels, out_channels |-> out_channels,
     kernel_size |-> kernel_size, stride |-> stride, padding |-> padding,
     groups |-> groups]

conv_bn(in_channels, out_channels, kernel_size, stride, padding, groups) ==
    [conv |-> Conv2d(in_channels, out_channels, kernel_size, stride, padding, groups),
     bn |-> out_channels]

SEBlock(input_channels, internal_neurons) ==
    [down |-> Conv2d(input_channels, internal_neurons, 1, 1, 0, 1),
     up |-> Conv2d(internal_neurons, input_channels, 1, 1, 0, 1),
     input_channels |-> input_channels]

(* The identity-normalization path: present or None. *)
(* The condition without its stride. *)
HasIdentityMut(in_channels, out_channels, stride) == out_channels = in_channels
HasIdentity(in_channels, out_channels, stride) ==
    out_channels = in_channels /\ stride = 1

(* The two assertions of RepVGGBlock.__init__. *)
(* The assertions without the one on the padding. *)
BlockAssertsMut(kernel_size, padding) == kernel_size = 3
BlockAsserts(kernel_size, padding) == kernel_size = 3 /\ padding = 1

(* RepVGGBlock.__init__: the error it raises ("" for none) and the block. *)
RepVGGBlock(in_channels, out_channels, kernel_size, stride, padding, groups, use_se) ==
    IF ~BlockAsserts(kernel_size, padding)
    THEN [err |-> "AssertionError", block |-> None]
    ELSE IF ~Conv2dAccepts(in_channels, out_channels, groups)
    THEN [err |-> "ValueError", block |-> None]
    ELSE [err |-> "",
          block |-> Some(
            [in_channels |-> in_channels, out_channels |-> out_channels,
             stride |-> stride, groups |-> groups,
             se |-> IF use_se THEN Some(SEBlock(out_channels, out_channels \div 16))
                    ELSE None,
             rbr_identity |-> IF HasIdentity(in_channels, out_channels, stride)
                              THEN Some(in_channels) ELSE None,
             rbr_dense |-> conv_bn(in_channels, out_channels, kernel_size,
                                   stride, padding, groups),
             rbr_1x1 |-> conv_bn(in_channels, out_channels, 1, stride,
                                 padding - kernel_size \div 2, groups)])]

(***************************************************************************)
(* Forward computations on shapes.  A result is [ok, shape]; ok = FALSE is *)
(* a raised error.                                                         *)
(***************************************************************************)
Ok(shape) == [ok |-> TRUE, shape |-> shape]
Fail == [ok |-> FALSE, shape |-> <<>>]

(* Output extent of a convolution or pooling window along one dimension. *)
WindowOut(n, kernel_size, stride, padding) ==
    ((n + 2 * padding - kernel_size) \div stride) + 1

Conv2dForward(conv, x) ==
    IF /\ x[2] = conv.in_channels
       /\ x[3] + 2 * conv.padding >= conv.kernel_size
       /\ x[4] + 2 * conv.padding >= conv.kernel_size
    THEN Ok(<<x[1], conv.out_channels,
              WindowOut(x[3], conv.kernel_size, conv.stride, conv.padding),
              WindowOut(x[4], conv.kernel_size, conv.stride, conv.padding)>>)
    ELSE Fail

BatchNorm2dForward(num_features, x) ==
    IF x[2] = num_features THEN Ok(x) ELSE Fail

ConvBnForward(cb, x) ==
    LET c == Conv2dForward(cb.conv, x)
    IN  IF c.ok THEN BatchNorm2dForward(cb.bn, c.shape) ELSE Fail

(* Broadcasting of two 4-d shapes. *)
Broadcastable(a, b) == \A i \in 1..4 : a[i] = b[i] \/ a[i] = 1 \/ b[i] = 1
Broadcast(a, b) ==
    IF Broadcastable(a, b)
    THEN Ok([i \in 1..4 |-> IF a[i] = 1 THEN b[i] ELSE a[i]])
    ELSE Fail

(* F.avg_pool2d(inputs, kernel_size=k): a k x k window with stride k. *)
AvgPool2d(x, k) ==
    IF x[3] >= k /\ x[4] >= k
    THEN Ok(<<x[1], x[2], WindowOut(x[3], k, k, 0), WindowOut(x[4], k, k, 0)>>)
    ELSE Fail

(* x.view(-1, channels, 1, 1) *)
ViewGate(x, channels) ==
    LET numel == x[1] * x[2] * x[3] * x[4]
    IN  IF channels > 0 /\ numel % channels = 0
        THEN Ok(<<numel \div channels, channels, 1, 1>>)
        ELSE Fail

(* SEBlock.forward: the shape of the gate tensor and of the output. *)
SEForward(se, inputs) ==
    LET pooled == AvgPool2d(inputs, inputs[4])
        down == IF pooled.ok THEN Conv2dForward(se.down, pooled.shape) ELSE Fail
        up == IF down.ok THEN Conv2dForward(se.up, down.shape) ELSE Fail
        gate == IF up.ok THEN ViewGate(up.shape, se.input_channels) ELSE Fail
        out == IF gate.ok THEN Broadcast(inputs, gate.shape) ELSE Fail
    IN  [ok |-> out.ok, shape |-> out.shape, gate |-> gate.shape]

(* RepVGGBlock.forward: the paths summed, the identity contribution and *)
(* the output shape.                                                     *)
BlockForward(b, inputs) ==
    LET id_out == IF IsNone(b.rbr_identity) THEN "0" ELSE "rbr_identity"
        idr == IF IsNone(b.rbr_identity) THEN Ok(<<1, 1, 1, 1>>)
               ELSE BatchNorm2dForward(Val(b.rbr_identity), inputs)
        dense == ConvBnForward(b.rbr_dense, inputs)
        pw == ConvBnForward(b.rbr_1x1, inputs)
        s1 == IF dense.ok /\ pw.ok /\ dense.shape = pw.shape THEN dense ELSE Fail
        sum == IF s1.ok /\ idr.ok /\ (id_out = "0" \/ idr.shape = s1.shape)
               THEN s1 ELSE Fail
        att == IF ~sum.ok THEN Fail
               ELSE IF IsNone(b.se) THEN sum
               ELSE LET r == SEForward(Val(b.se), sum.shape)
                    IN  [ok |-> r.ok, shape |-> r.shape]
    IN  [ok |-> att.ok, shape |-> att.shape, id_out |-> id_out,
         summed |-> <<"rbr_dense", "rbr_1x1", id_out>>,
         wrapped |-> <<IF IsNone(b.se) THEN "Identity" ELSE "SEBlock", "ReLU">>]

(* nn.Sequential.forward over the blocks of a stage. *)
RECURSIVE SequentialForward(_, _)
SequentialForward(blocks, x) ==
    IF blocks = <<>> THEN Ok(x)
    ELSE LET r == BlockForward(Head(blocks), x)
         IN  IF r.ok THEN SequentialForward(Tail(blocks), r.shape) ELSE Fail

(***************************************************************************)
(* RepVGG: the network.                                                    *)
(***************************************************************************)

(* Line 152 and lines 160-169, 173: the widths. *)
StemWidth(width_multiplier) == Min(64, IntMul(64, width_multiplier[1]))

BaseWidth == <<64, 128, 256, 512>>

StageAttr == <<"stage1", "stage2", "stage3", "stage4">>

StageWidth(stage, width_multiplier) ==
    IntMul(BaseWidth[stage], width_multiplier[stage])

(* Line 176: strides = [stride] + [1] * (num_blocks - 1) *)
StageStrides(stride, num_blocks) == <<stride>> \o [i \in 1..(num_blocks - 1) |-> 1]

(* Line 179: cur_groups = self.override_groups_map.get(self.cur_layer_idx, 1) *)
(* The lookup with a counter that starts at 0. *)
CurGroupsMut(override_groups_map, cur_layer_idx) ==
    DictGet(override_groups_map, cur_layer_idx - 1, 1)
CurGroups(override_groups_map, cur_layer_idx) ==
    DictGet(override_groups_map, cur_layer_idx, 1)

(* Line 188: self.in_planes = planes *)
(* The running width left as it was. *)
NextInPlanesMut(in_planes, planes) == in_planes
NextInPlanes(in_planes, planes) == planes

(* Line 148: assert 0 not in self.override_groups_map *)
(* The assertion left out. *)
MapAssertMut(override_groups_map) == TRUE
MapAssert(override_groups_map) == 0 \notin DOMAIN override_groups_map

(* The parameters of RepVGG.__init__ that have no default. *)
RequiredParams == {"num_blocks", "num_classes"}

(* The keys a call passes. *)
PassedKeys(kw) ==
    {k \in {"num_blocks", "num_classes", "use_se", "width_multiplier",
            "override_groups_map"} : ~IsNone(kw[k])}

Kwargs(num_blocks, num_classes, use_se, width_multiplier, override_groups_map) ==
    [num_blocks |-> num_blocks, num_classes |-> num_classes, use_se |-> use_se,
     width_multiplier |-> width_multiplier,
     override_groups_map |-> override_groups_map]

(* The config file: g4_map and the backbone dictionary without its 'type'. *)
g4_map == [l \in {2, 4, 6, 8, 10, 12, 14, 16, 18, 20, 22, 24, 26} |-> 4]

B2Widths == << <<5, 2>>, <<5, 2>>, <<5, 2>>, <<5, 1>> >>

ConfigBackbone ==
    Kwargs(Some(<<4, 6, 16, 1>>), None, None, Some(B2Widths), Some(g4_map))

(* The inputs of the construction. *)
Uniform(w) == <<w, w, w, w>>

WidthMultiplierInputs ==
    {None, Some(B2Widths), Some(Uniform(<<13, 50>>)), Some(Uniform(<<1, 3>>)),
     Some(Uniform(<<3, 4>>)), Some(Uniform(<<0, 1>>)),
     Some(<< <<5, 2>>, <<5, 2>>, <<5, 2>> >>),
     Some(<< <<1, 1>>, <<1, 1>>, <<1, 1>>, <<1, 1>>, <<1, 1>> >>)}

OverrideGroupsMapInputs ==
    {None, Some([l \in {2} |-> 4]), Some([l \in {0} |-> 4]),
     Some([l \in {1, 3} |-> IF l = 1 THEN 4 ELSE 2])}

NumBlocksInputs == [1..4 -> 0..MaxBlocks]

KwargsInputs ==
    {Kwargs(Some(nb), Some(10), se, wm, gm) :
        nb \in NumBlocksInputs, se \in {None, Some(TRUE)},
        wm \in WidthMultiplierInputs, gm \in OverrideGroupsMapInputs}
    \cup {ConfigBackbone, [ConfigBackbone EXCEPT !.num_classes = Some(10)]}

NetKwargsInputs ==
    {Kwargs(Some(nb), Some(10), se, wm, gm) :
        nb \in [1..4 -> 1..MaxBlocks], se \in {None, Some(TRUE)},
        wm \in {Some(Uniform(<<13, 50>>)), Some(Uniform(<<1, 1>>))},
        gm \in {None, Some([l \in {2} |-> 4])}}

InputShapes ==
    {<<n, c, h, w>> : n \in 1..MaxBatch, c \in {1, 3, 4}, h \in 1..MaxHW, w \in 1..MaxHW}

NoArgs == [num_blocks |-> <<>>, num_classes |-> 0, use_se |-> FALSE,
           width_multiplier |-> None, override_groups_map |-> None]

NoSelf == [attrs |-> {}, override_groups_map |-> EmptyDict, use_se |-> FALSE,
           cur_layer_idx |-> 0, in_planes |-> 0, stage0 |-> None,
           stages |-> [s \in 1..4 |-> <<>>], linear |-> None]

NoFrame == [stage |-> 0, planes |-> 0, strides |-> <<>>, blocks |-> <<>>]

NoFwd == [input |-> <<>>, x |-> <<>>, trace |-> <<>>]

NoBlockArgs == [in_channels |-> 0, out_channels |-> 0, kernel_size |-> 0,
                stride |-> 0, padding |-> None, groups |-> 0, use_se |-> FALSE]

NoBio == [input |-> <<>>, ok |-> FALSE, shape |-> <<>>, id_out |-> "",
          summed |-> <<>>, wrapped |-> <<>>]

NoSeIo == [input |-> <<>>, ok |-> FALSE, shape |-> <<>>, gate |-> <<>>]

Idle == /\ kwargs = Kwargs(None, None, None, None, None) /\ args = NoArgs
        /\ self = NoSelf /\ frame = NoFrame /\ fwd = NoFwd

Raise(e) == pc' = "raised" /\ err' = e

(* Lines 138-143: the call binds the keyword arguments; a parameter with *)
(* no default that is not passed is a TypeError.                         *)
Call ==
    /\ pc = "call"
    /\ IF ~(RequiredParams \subseteq PassedKeys(kwargs))
       THEN /\ Raise("TypeError: missing required argument")
            /\ UNCHANGED args
       ELSE /\ args' = [num_blocks |-> Val(kwargs.num_blocks),
                        num_classes |-> Val(kwargs.num_classes),
                        use_se |-> IF IsNone(kwargs.use_se) THEN FALSE
                                   ELSE Val(kwargs.use_se),
                        width_multiplier |-> kwargs.width_multiplier,
                        override_groups_map |-> kwargs.override_groups_map]
            /\ pc' = "init"
            /\ UNCHANGED err
    /\ UNCHANGED <<kwargs, self, frame, fwd>>
    /\ UNCHANGED <<blockvars, sevars>>

(* Lines 145-152. *)
InitFields ==
    /\ pc = "init"
    /\ IF IsNone(args.width_multiplier)
       THEN /\ Raise("TypeError: object of type 'NoneType' has no len()")
            /\ UNCHANGED self
       ELSE IF Len(Val(args.width_multiplier)) # 4
       THEN /\ Raise("AssertionError")
            /\ UNCHANGED self
       ELSE LET ogm == IF IsNone(args.override_groups_map)
                          \/ DOMAIN Val(args.override_groups_map) = {}
                       THEN EmptyDict ELSE Val(args.override_groups_map)
                s1 == [self EXCEPT !.override_groups_map = ogm,
                                   !.attrs = @ \cup {"override_groups_map"}]
            IN  IF ~MapAssert(ogm)
                THEN /\ Raise("AssertionError")
                     /\ self' = s1
                ELSE /\ self' = [s1 EXCEPT
                            !.use_se = args.use_se,
                            !.cur_layer_idx = 1,
                            !.in_planes = StemWidth(Val(args.width_multiplier)),
                            !.attrs = @ \cup {"use_se", "cur_layer_idx", "in_planes"}]
                     /\ pc' = "stage0"
                     /\ UNCHANGED err
    /\ UNCHANGED <<kwargs, args, frame, fwd>>
    /\ UNCHANGED <<blockvars, sevars>>

(* Lines 153-158: the stem. *)
BuildStem ==
    /\ pc = "stage0"
    /\ LET r == RepVGGBlock(3, self.in_planes, 3, 2, 1, 1, self.use_se)
       IN  IF r.err # ""
           THEN Raise(r.err) /\ UNCHANGED self
           ELSE /\ self' = [self EXCEPT !.stage0 = r.block,
                                        !.attrs = @ \cup {"stage0"}]
                /\ pc' = "make_stage"
                /\ UNCHANGED err
    /\ UNCHANGED <<kwargs, args, frame, fwd>>
    /\ UNCHANGED <<blockvars, sevars>>

(* Lines 160-171 (the call) and 176-177: the next stage is entered. *)
EnterStage ==
    /\ pc = "make_stage"
    /\ LET stage == frame.stage + 1
       IN  frame' = [stage |-> stage,
                     planes |-> StageWidth(stage, Val(args.width_multiplier)),
                     strides |-> StageStrides(2, args.num_blocks[stage]),
                     blocks |-> <<>>]
    /\ pc' = "loop"
    /\ UNCHANGED <<err, kwargs, args, self, fwd>>
    /\ UNCHANGED <<blockvars, sevars>>

(* Lines 178-189: one iteration of the loop of _make_stage. *)
LoopBody ==
    /\ pc = "loop"
    /\ frame.strides # <<>>
    /\ LET stride == Head(frame.strides)
           cur_groups == CurGroups(self.override_groups_map, self.cur_layer_idx)
           r == RepVGGBlock(self.in_planes, frame.planes, 3, stride, 1,
                            cur_groups, self.use_se)
       IN  IF r.err # ""
           THEN Raise(r.err) /\ UNCHANGED <<self, frame>>
           ELSE /\ frame' = [frame EXCEPT !.blocks = Append(@, Val(r.block)),
                                          !.strides = Tail(@)]
                /\ self' = [self EXCEPT
                       !.in_planes = NextInPlanes(@, frame.planes),
                       !.cur_layer_idx = @ + 1]
                /\ UNCHANGED <<pc, err>>
    /\ UNCHANGED <<kwargs, args, fwd>>
    /\ UNCHANGED <<blockvars, sevars>>

(* Line 190 and the assignment of lines 160-171. *)
ReturnStage ==
    /\ pc = "loop"
    /\ frame.strides = <<>>
    /\ self' = [self EXCEPT
           !.stages[frame.stage] = frame.blocks,
           !.attrs = @ \cup {StageAttr[frame.stage]}]
    /\ frame' = [frame EXCEPT !.blocks = <<>>]
    /\ pc' = IF frame.stage = 4 THEN "head" ELSE "make_stage"
    /\ UNCHANGED <<err, kwargs, args, fwd>>
    /\ UNCHANGED <<blockvars, sevars>>

(* Lines 172-173: the pool and the classifier. *)
BuildHead ==
    /\ pc = "head"
    /\ self' = [self EXCEPT
           !.linear = Some([in_features |-> StageWidth(4, Val(args.width_multiplier)),
                            out_features |-> args.num_classes]),
           !.attrs = @ \cup {"gap", "linear"}]
    /\ pc' = "built"
    /\ UNCHANGED <<err, kwargs, args, frame, fwd>>
    /\ UNCHANGED <<blockvars, sevars>>

NextBuild ==
    \/ Call
    \/ InitFields
    \/ BuildStem
    \/ EnterStage
    \/ LoopBody
    \/ ReturnStage
    \/ BuildHead

InitBuild ==
    /\ pc = "call" /\ err = ""
    /\ kwargs \in KwargsInputs
    /\ args = NoArgs /\ self = NoSelf /\ frame = NoFrame /\ fwd = NoFwd
    /\ bargs = NoBlockArgs /\ block = None /\ bio = NoBio
    /\ se_mod = None /\ se_io = NoSeIo

SpecBuild == InitBuild /\ [][NextBuild]_vars

(***************************************************************************)
(* Properties of the construction.                                         *)
(***************************************************************************)
Abs(n) == IF n >= 0 THEN n ELSE -n

(* The blocks of stage s built so far, and all non-stem blocks in the *)
(* order of their construction.                                       *)
BuiltBlocks(s) ==
    IF frame.stage = s THEN self.stages[s] \o frame.blocks ELSE self.stages[s]

AllBlocks == BuiltBlocks(1) \o BuiltBlocks(2) \o BuiltBlocks(3) \o BuiltBlocks(4)

InputWidths == Val(kwargs.width_multiplier)

InputMap ==
    IF IsNone(kwargs.override_groups_map) THEN EmptyDict
    ELSE Val(kwargs.override_groups_map)

(* v is base * w rounded to a nearest integer (a tie either way). *)
IsRounded(v, base, w) == 2 * Abs(v * w[2] - base * w[1]) <= w[2]

(* v is base * w truncated, for w >= 0. *)
IsTruncated(v, base, w) == v * w[2] <= base * w[1] /\ base * w[1] < (v + 1) * w[2]

(* C1 as stated: every block of stage s has the output width               *)
(* round(base_width[s] * width_multiplier[s]) and the stem has             *)
(* min(64, round(64 * width_multiplier[0])).                               *)
C1_RoundedWidths ==
    /\ \A s \in 1..4 : \A i \in 1..Len(BuiltBlocks(s)) :
          IsRounded(BuiltBlocks(s)[i].out_channels, BaseWidth[s], InputWidths[s])
    /\ ~IsNone(self.stage0) =>
          \E r \in 0..(64 * InputWidths[1][1] + 1) :
             /\ IsRounded(r, 64, InputWidths[1])
             /\ Val(self.stage0).out_channels = Min(64, r)

(* C1 amended: every block of stage s has the output width                 *)
(* int(base_width[s] * width_multiplier[s]), the product truncated, and    *)
(* the stem has min(64, int(64 * width_multiplier[0])); the multipliers    *)
(* [2.5, 2.5, 2.5, 5] give the stem 64 and the stages 160, 320, 640, 2560. *)
C1_TruncatedWidths ==
    /\ \A s \in 1..4 : \A i \in 1..Len(BuiltBlocks(s)) :
          IsTruncated(BuiltBlocks(s)[i].out_channels, BaseWidth[s], InputWidths[s])
    /\ ~IsNone(self.stage0) =>
          \E t \in 0..(64 * InputWidths[1][1]) :
             /\ IsTruncated(t, 64, InputWidths[1])
             /\ Val(self.stage0).out_channels = Min(64, t)
    /\ (~IsNone(self.stage0) /\ InputWidths = B2Widths) =>
          /\ Val(self.stage0).out_channels = 64
          /\ \A s \in 1..4 : \A i \in 1..Len(BuiltBlocks(s)) :
                BuiltBlocks(s)[i].out_channels = <<160, 320, 640, 2560>>[s]

(* A network built with the multiplier 0.26 in every stage: 16.64, 33.28, *)
(* 66.56 and 133.12 are truncated.                                         *)
C1_Witness ==
    /\ pc = "built"
    /\ InputWidths = Uniform(<<13, 50>>)
    /\ Val(self.stage0).out_channels = 16
    /\ \A s \in 1..4 : Len(self.stages[s]) >= 1
    /\ self.stages[1][1].out_channels = 16
    /\ self.stages[2][1].out_channels = 33
    /\ self.stages[4][1].out_channels = 133

(* C2: the layer-index counter starts at 1, is not advanced by the stem,   *)
(* grows by one with every non-stem block and is never reset; the k-th     *)
(* non-stem block has the grouping factor override_groups_map[k] if k is a *)
(* key and 1 otherwise; the stem has the grouping factor 1.                *)
C2_LayerIndex ==
    /\ "cur_layer_idx" \in self.attrs => self.cur_layer_idx = 1 + Len(AllBlocks)
    /\ \A k \in 1..Len(AllBlocks) :
          AllBlocks[k].groups = (IF k \in DOMAIN InputMap THEN InputMap[k] ELSE 1)
    /\ ~IsNone(self.stage0) => Val(self.stage0).groups = 1

(* With {2: 4} and one block in stage 1, the second block, the first of *)
(* stage 2, is the only one with the grouping factor 4.                 *)
C2_Witness ==
    /\ pc = "built"
    /\ DOMAIN InputMap = {2}
    /\ Len(self.stages[1]) = 1
    /\ self.stages[2][1].groups = 4
    /\ Cardinality({k \in 1..Len(AllBlocks) : AllBlocks[k].groups = 4}) = 1
    /\ self.cur_layer_idx = Len(AllBlocks) + 1

(* C3 as stated: a stage that is built holds exactly num_blocks[s] blocks, *)
(* the first with stride 2 and the later ones with stride 1.               *)
C3_BlockCounts ==
    \A s \in 1..4 :
        StageAttr[s] \in self.attrs =>
            /\ Len(self.stages[s]) = args.num_blocks[s]
            /\ \A i \in 1..Len(self.stages[s]) :
                  self.stages[s][i].stride = (IF i = 1 THEN 2 ELSE 1)

(* The configurations C8 is about. *)
AbsentWidths == IsNone(kwargs.width_multiplier)
WrongLength == ~AbsentWidths /\ Len(InputWidths) # 4
ReservedKey == 0 \in DOMAIN InputMap
Rejected == AbsentWidths \/ WrongLength \/ ReservedKey
PastChecks == pc \notin {"call", "init"}
NothingBuilt ==
    /\ IsNone(self.stage0)
    /\ AllBlocks = <<>>
    /\ IsNone(self.linear)
    /\ "cur_layer_idx" \notin self.attrs

(* C8 as stated: each rejected configuration fails with an AssertionError *)
(* before any block is built and before the counter is set.               *)
C8_AssertionError ==
    (Rejected /\ RequiredParams \subseteq PassedKeys(kwargs) /\ PastChecks) =>
        pc = "raised" /\ err = "AssertionError" /\ NothingBuilt

(* C8 amended: with the required parameters passed, construction fails     *)
(* before any block is built and before the counter is set: with a         *)
(* TypeError when width_multiplier is absent, with an AssertionError when  *)
(* it has a length other than 4 or the map has the key 0.                  *)
C8_FailsBeforeBlocks ==
    (Rejected /\ RequiredParams \subseteq PassedKeys(kwargs) /\ PastChecks) =>
        /\ pc = "raised"
        /\ err = (IF AbsentWidths
                  THEN "TypeError: object of type 'NoneType' has no len()"
                  ELSE "AssertionError")
        /\ NothingBuilt

(* A construction without width_multiplier has raised. *)
C8_Witness ==
    /\ AbsentWidths
    /\ pc = "raised"
    /\ err = "TypeError: object of type 'NoneType' has no len()"
    /\ NothingBuilt

(* C9 as stated: the backbone dictionary of the config passes every *)
(* required parameter, so the construction from it does not fail    *)
(* for a missing one.                                               *)
C9_ConfigComplete ==
    kwargs = ConfigBackbone =>
        ~(pc = "raised" /\ err = "TypeError: missing required argument")

(* The stem followed by the non-stem blocks. *)
Chain == self.stage0 \o AllBlocks

(* C10: each block's in_channels is the out_channels of the block built    *)
(* before it (the stem first), the classifier's input size is the          *)
(* out_channels of the last block of stage 4, every non-first block of a   *)
(* stage has an identity path, and the stem and first blocks have none.    *)
C10_WidthsChain ==
    /\ \A i \in 2..Len(Chain) : Chain[i].in_channels = Chain[i - 1].out_channels
    /\ pc = "built" =>
          /\ Len(self.stages[4]) >= 1
          /\ Val(self.linear).in_features =
                self.stages[4][Len(self.stages[4])].out_channels
    /\ ~IsNone(self.stage0) => IsNone(Val(self.stage0).rbr_identity)
    /\ \A s \in 1..4 : \A i \in 1..Len(BuiltBlocks(s)) :
          IsNone(BuiltBlocks(s)[i].rbr_identity) <=> (i = 1)

(* A built network whose stages have two blocks each and four widths. *)
C10_Witness ==
    /\ pc = "built"
    /\ InputWidths = B2Widths
    /\ \A s \in 1..4 : Len(self.stages[s]) = 2
    /\ self.stages[3][1].in_channels = 320
    /\ ~IsNone(self.stages[3][2].rbr_identity)
    /\ Val(self.linear).in_features = 2560

(***************************************************************************)
(* RepVGG.forward.                                                         *)
(***************************************************************************)

(* nn.AdaptiveAvgPool2d(output_size=1) *)
GapForward(x) == Ok(<<x[1], x[2], 1, 1>>)

(* out.view(out.size(0), -1) *)
Flatten(x) == Ok(<<x[1], x[2] * x[3] * x[4]>>)

(* nn.Linear on a 2-d input. *)
LinearForward(linear, x) ==
    IF x[2] = linear.in_features THEN Ok(<<x[1], linear.out_features>>) ELSE Fail

(* A layer was called with result r: it returned or it raised. *)
Ran(layer, r, next) ==
    /\ fwd' = [fwd EXCEPT !.trace = Append(@, layer), !.x = r.shape]
    /\ IF r.ok THEN pc' = next /\ UNCHANGED err ELSE Raise("RuntimeError")

(* Lines 192-193. *)
ForwardEnter ==
    /\ pc = "built"
    /\ \E x \in InputShapes :
          /\ fwd' = [input |-> x, x |-> x, trace |-> <<>>]
          /\ IF x[2] = 3 THEN pc' = "f_stage0" /\ UNCHANGED err
             ELSE Raise("AssertionError")
    /\ UNCHANGED <<kwargs, args, self, frame>>
    /\ UNCHANGED <<blockvars, sevars>>

(* Line 194. *)
ForwardStage0 ==
    /\ pc = "f_stage0"
    /\ Ran("stage0", BlockForward(Val(self.stage0), fwd.x), "f_stage1")
    /\ UNCHANGED <<kwargs, args, self, frame>>
    /\ UNCHANGED <<blockvars, sevars>>

(* Lines 195-198. *)
ForwardStage(s) ==
    /\ pc = <<"f_stage1", "f_stage2", "f_stage3", "f_stage4">>[s]
    /\ Ran(StageAttr[s], SequentialForward(self.stages[s], fwd.x),
           <<"f_stage2", "f_stage3", "f_stage4", "f_gap">>[s])
    /\ UNCHANGED <<kwargs, args, self, frame>>
    /\ UNCHANGED <<blockvars, sevars>>

(* Line 199. *)
ForwardGap ==
    /\ pc = "f_gap"
    /\ Ran("gap", GapForward(fwd.x), "f_view")
    /\ UNCHANGED <<kwargs, args, self, frame>>
    /\ UNCHANGED <<blockvars, sevars>>

(* Line 200. *)
ForwardView ==
    /\ pc = "f_view"
    /\ Ran("view", Flatten(fwd.x), "f_linear")
    /\ UNCHANGED <<kwargs, args, self, frame>>
    /\ UNCHANGED <<blockvars, sevars>>

(* Lines 201-202. *)
ForwardLinear ==
    /\ pc = "f_linear"
    /\ Ran("linear", LinearForward(Val(self.linear), fwd.x), "returned")
    /\ UNCHANGED <<kwargs, args, self, frame>>
    /\ UNCHANGED <<blockvars, sevars>>

NextNet ==
    \/ Call
    \/ InitFields
    \/ BuildStem
    \/ EnterStage
    \/ LoopBody
    \/ ReturnStage
    \/ BuildHead
    \/ ForwardEnter
    \/ ForwardStage0
    \/ \E s \in 1..4 : ForwardStage(s)
    \/ ForwardGap
    \/ ForwardView
    \/ ForwardLinear

InitNet ==
    /\ pc = "call" /\ err = ""
    /\ kwargs \in NetKwargsInputs
    /\ args = NoArgs /\ self = NoSelf /\ frame = NoFrame /\ fwd = NoFwd
    /\ bargs = NoBlockArgs /\ block = None /\ bio = NoBio
    /\ se_mod = None /\ se_io = NoSeIo

SpecNet == InitNet /\ [][NextNet]_vars

LayerOrder ==
    <<"stage0", "stage1", "stage2", "stage3", "stage4", "gap", "view", "linear">>

(* C5 as stated: with a channel count other than 3 the forward pass fails  *)
(* before any layer runs; with 3 channels it runs the stem, the four       *)
(* stages, the pool, the flattening and the classifier in this order, each *)
(* once, and returns the shape (batch, num_classes).                       *)
C5_Forward ==
    fwd.input # <<>> =>
        IF fwd.input[2] # 3
        THEN pc = "raised" /\ err = "AssertionError" /\ fwd.trace = <<>>
        ELSE /\ pc # "raised"
             /\ fwd.trace = SubSeq(LayerOrder, 1, Len(fwd.trace))
             /\ pc = "returned" =>
                   /\ fwd.trace = LayerOrder
                   /\ fwd.x = <<fwd.input[1], args.num_classes>>

(***************************************************************************)
(* A RepVGGBlock on its own.                                               *)
(***************************************************************************)
BlockArgsInputs ==
    [in_channels : {3, 8, 16}, out_channels : {8, 16}, kernel_size : {1, 3, 5},
     stride : {1, 2}, padding : {None, Some(0), Some(1), Some(2)},
     groups : {1, 2, 4}, use_se : BOOLEAN]

BlockInputShapes ==
    {<<n, c, h, w>> : n \in 1..MaxBatch, c \in {3, 8, 16}, h \in 1..MaxHW,
                      w \in 1..MaxHW}

(* Lines 70-110; padding defaults to 0. *)
BlockCall ==
    /\ pc = "block_call"
    /\ LET r == RepVGGBlock(bargs.in_channels, bargs.out_channels,
                            bargs.kernel_size, bargs.stride,
                            IF IsNone(bargs.padding) THEN 0 ELSE Val(bargs.padding),
                            bargs.groups, bargs.use_se)
       IN  /\ block' = r.block
           /\ IF r.err = "" THEN pc' = "block_built" /\ UNCHANGED err
              ELSE Raise(r.err)
    /\ UNCHANGED <<bargs, bio>>
    /\ UNCHANGED <<netvars, sevars>>

(* Lines 112-119. *)
BlockForwardCall ==
    /\ pc = "block_built"
    /\ \E x \in BlockInputShapes :
          LET r == BlockForward(Val(block), x)
          IN  /\ bio' = [input |-> x, ok |-> r.ok, shape |-> r.shape,
                         id_out |-> r.id_out, summed |-> r.summed,
                         wrapped |-> r.wrapped]
              /\ IF r.ok THEN pc' = "block_returned" /\ UNCHANGED err
                 ELSE Raise("RuntimeError")
    /\ UNCHANGED <<bargs, block>>
    /\ UNCHANGED <<netvars, sevars>>

NextBlock ==
    \/ BlockCall
    \/ BlockForwardCall

InitBlock ==
    /\ pc = "block_call" /\ err = ""
    /\ bargs \in BlockArgsInputs
    /\ block = None /\ bio = NoBio
    /\ Idle
    /\ se_mod = None /\ se_io = NoSeIo

SpecBlock == InitBlock /\ [][NextBlock]_vars

PaddingArg == IF IsNone(bargs.padding) THEN 0 ELSE Val(bargs.padding)
Supported == bargs.kernel_size = 3 /\ PaddingArg = 1
SamePlane == bargs.in_channels = bargs.out_channels /\ bargs.stride = 1
GroupsDivide ==
    bargs.in_channels % bargs.groups = 0 /\ bargs.out_channels % bargs.groups = 0

(* C4: the block has an identity path exactly if in_channels =             *)
(* out_channels and stride = 1; forward sums the dense, the pointwise and  *)
(* the identity path and passes the sum through the attention and the      *)
(* ReLU; without the path the identity contribution is the number 0.       *)
C4_IdentityPath ==
    /\ ~IsNone(block) => (~IsNone(Val(block).rbr_identity) <=> SamePlane)
    /\ bio.input # <<>> =>
          /\ bio.summed = <<"rbr_dense", "rbr_1x1",
                            IF SamePlane THEN "rbr_identity" ELSE "0">>
          /\ ~SamePlane => bio.id_out = "0"
          /\ bio.wrapped = <<IF bargs.use_se THEN "SEBlock" ELSE "Identity", "ReLU">>

(* A block with an identity path has returned an output of the shape *)
(* of its input.                                                     *)
C4_Witness ==
    /\ pc = "block_returned"
    /\ SamePlane
    /\ bio.id_out = "rbr_identity"
    /\ bio.shape = bio.input

(* C7 as stated: with kernel_size = 3 and padding = 1 the construction *)
(* succeeds whatever the other arguments; with any other pair it fails *)
(* with an AssertionError.                                             *)
C7_AlwaysSucceeds ==
    pc # "block_call" =>
        IF Supported THEN ~IsNone(block)
        ELSE IsNone(block) /\ pc = "raised" /\ err = "AssertionError"

(* C7 amended: with kernel_size = 3 and padding = 1 the construction       *)
(* succeeds if the grouping factor divides in_channels and out_channels    *)
(* and fails with the convolution's ValueError if not; with any other      *)
(* pair, the default padding 0 included, it fails with an AssertionError.  *)
C7_SucceedsIfGroupsDivide ==
    pc # "block_call" =>
        IF Supported /\ GroupsDivide THEN ~IsNone(block)
        ELSE /\ IsNone(block) /\ pc = "raised"
             /\ err = (IF Supported THEN "ValueError" ELSE "AssertionError")

(* A block with grouped convolutions and attention is built. *)
C7_Witness ==
    /\ pc = "block_built"
    /\ Supported
    /\ bargs.groups = 4 /\ bargs.use_se /\ bargs.stride = 2
    /\ ~IsNone(block)

(***************************************************************************)
(* An SEBlock on its own.                                                  *)
(***************************************************************************)
SEChannels == {8, 16, 32, 48}

SEInputShapes ==
    {<<n, c, h, w>> : n \in 1..MaxBatch, c \in SEChannels, h \in 1..MaxHW,
                      w \in 1..MaxHW}

(* Lines 21-33, with the reduction of line 90. *)
SECall ==
    /\ pc = "se_call"
    /\ \E c \in SEChannels : se_mod' = Some(SEBlock(c, c \div 16))
    /\ pc' = "se_built"
    /\ UNCHANGED <<err, se_io>>
    /\ UNCHANGED <<netvars, blockvars>>

(* Lines 35-42. *)
SEForwardCall ==
    /\ pc = "se_built"
    /\ \E x \in SEInputShapes :
          LET r == SEForward(Val(se_mod), x)
          IN  /\ se_io' = [input |-> x, ok |-> r.ok, shape |-> r.shape,
                           gate |-> r.gate]
              /\ IF r.ok THEN pc' = "se_returned" /\ UNCHANGED err
                 ELSE Raise("RuntimeError")
    /\ UNCHANGED se_mod
    /\ UNCHANGED <<netvars, blockvars>>

NextSE ==
    \/ SECall
    \/ SEForwardCall

InitSE ==
    /\ pc = "se_call" /\ err = ""
    /\ se_mod = None /\ se_io = NoSeIo
    /\ Idle
    /\ bargs = NoBlockArgs /\ block = None /\ bio = NoBio

SpecSE == InitSE /\ [][NextSE]_vars

(* C6 as stated: on an input of the block's channel count, whatever H and  *)
(* W, forward computes one gate value per sample and channel and returns   *)
(* the shape of its input.                                                 *)
C6_ShapePreserved ==
    (se_io.input # <<>> /\ se_io.input[2] = Val(se_mod).input_channels) =>
        /\ se_io.ok
        /\ se_io.gate = <<se_io.input[1], se_io.input[2], 1, 1>>
        /\ se_io.shape = se_io.input

====
